---- MODULE Spec2Model ----
(***************************************************************************)
(* State-machine model of the copy-to-clipboard plugin                     *)
(* (src/script-release.mjs): the copy operations started from the command  *)
(* and from the file menu, the render-completion detector, the image       *)
(* resolution batch and the top-level error handling of doCopy.            *)
(*                                                                         *)
(* JavaScript runs one synchronous segment at a time: every action below   *)
(* is one such segment, from one suspension point (await, timer, event     *)
(* callback) to the next.                                                  *)
(***************************************************************************)
EXTENDS Integers, Sequences, FiniteSets, TLC

VARIABLES
    now,              \* Date.now(), in ms
    copyIsRunning,    \* line 44
    ppIsProcessing,   \* line 45
    ppLastBlockDate,  \* line 46
    openBlocks,       \* renderer: blocks whose processing started and has not finished
    nBlocks,          \* renderer: blocks started so far
    lastEndAt,        \* history: time of the last block-processing-finished event (-1: none)
    startSinceEnd,    \* history: a block-processing-started event came after the last finished one
    settings,         \* this.settings, loaded once in onload
    pc,               \* position of each copy request
    wakeAt,           \* when the pending delay(20) timer of a request is due
    imgs,             \* the img elements of each request's cloned tree and their resolutions
    notices,          \* Notices shown by each request
    clip,             \* clipboard writes made by each request
    modalOpen,        \* the progress modal of each request's DocumentRenderer is open
    wrappers,         \* hidden wrapper divs attached to document.body
    node,             \* embedImages on its own: the srcs of the img elements of its tree
    passStarts,       \* embedImages on its own: the tree at the start of each pass so far
    loads,            \* embedImages on its own: what loading each url and vault file gives
    mimePath,         \* guessMimeType on its own: its argument
    mimeGuess,        \* guessMimeType on its own: its result (<<>>: not called yet)
    content,          \* preprocessMarkdownList on its own: its argument
    normalized,       \* preprocessMarkdownList on its own: its result (<<"?">>: not called yet)
    htmlBody,         \* assembly on its own: the element returned by renderDocument
    title,            \* assembly on its own: the title of the note
    styles,           \* assembly on its own: STYLES[styleKey].styles, as (selector, declaration) pairs
    stringified,      \* assembly on its own: htmlDocument after line 249 (<<>>: not run yet)
    htmlDocument      \* assembly on its own: htmlDocument after line 258 (<<>>: not run yet)

vars == <<now, copyIsRunning, ppIsProcessing, ppLastBlockDate, openBlocks, nBlocks,
          lastEndAt, startSinceEnd, settings, pc, wakeAt, imgs,
          notices, clip, modalOpen, wrappers, node, passStarts, loads,
          mimePath, mimeGuess, content, normalized,
          htmlBody, title, styles, stringified, htmlDocument>>

globalVars == <<copyIsRunning, ppIsProcessing, ppLastBlockDate>>
rendererVars == <<openBlocks, nBlocks, lastEndAt, startSinceEnd>>
(* The arguments and results of the functions that are run on their own,   *)
(* outside a copy operation.                                               *)
embedVars == <<node, passStarts, loads>>
mimeVars == <<mimePath, mimeGuess>>
listVars == <<content, normalized>>
pageVars == <<htmlBody, title, styles, stringified, htmlDocument>>
callVars == <<embedVars, mimeVars, listVars, pageVars>>
inputVars == <<settings, callVars>>
outVars == <<notices, clip>>
(* The state of the copy operations. *)
copyVars == <<now, globalVars, rendererVars, pc, wakeAt, imgs, outVars, modalOpen,
              wrappers>>

----------------------------------------------------------------------------
(* Bounds *)

NumOps == 2
MaxBlocks == 2
MaxTime == 160
StartTime == 10
NumImages == 2
TickStep == 50

Ops == 1..NumOps

(* Program constants *)
optionRenderSettlingDelay == 100
PollDelay == 20

----------------------------------------------------------------------------
(* Image sources.  A URL is a record: scheme "app" is a URL under          *)
(* vaultLocalUriPrefix, "http" any other URL that is no data URI, "data" a *)
(* data URI of the given mime type.                                        *)

VaultUrl(ext) == [scheme |-> "app", type |-> <<"ext", <<ext>>>>, payload |-> "file"]
ExternalUrl == [scheme |-> "http", type |-> <<"ext", <<"png">>>>, payload |-> "remote"]
DataUri(mime, payload) == [scheme |-> "data", type |-> mime, payload |-> payload]

(* A mime type image/<subtype>: the subtype is a text. *)
SvgMime == <<"image", <<"svg+xml">>>>
PngMime == <<"image", <<"png">>>>

(* A text is a sequence of tokens: "/", "." or a word, a maximal run of     *)
(* other characters.                                                       *)
PathWords == {"a", "gif", "svg", "SVG", "Jpg"}
PathTokens == PathWords \cup {"/", "."}

(* String.prototype.toLowerCase *)
toLowerCase(text) ==
    [i \in 1..Len(text) |->
        CASE text[i] = "SVG" -> "svg"
          [] text[i] = "Jpg" -> "jpg"
          [] OTHER -> text[i]]

(* String.prototype.lastIndexOf: the 0-based index of the last token that  *)
(* is c, -1 when there is none.                                            *)
lastIndexOf(text, c) ==
    IF \E i \in 1..Len(text) : text[i] = c
    THEN (CHOOSE i \in 1..Len(text) :
            text[i] = c /\ \A k \in (i + 1)..Len(text) : text[k] # c) - 1
    ELSE -1

(* String.prototype.slice(start), start a 0-based index. *)
slice(text, start) == SubSeq(text, start + 1, Len(text))

(* this.mimeMap *)
mimeMap == (<<"svg">> :> SvgMime) @@ (<<"jpg">> :> <<"image", <<"jpeg">>>>)

getExtensionWholePath(filePath) ==
    toLowerCase(slice(filePath,
        IF lastIndexOf(filePath, ".") + 1 # 0 THEN lastIndexOf(filePath, ".") + 1
        ELSE Len(filePath)))

(* getExtension: the lower-cased text after the last "." of the file name. *)
getExtension(filePath) ==
    LET fileName == slice(filePath, lastIndexOf(filePath, "/") + 1)
    IN  toLowerCase(slice(fileName,
            IF lastIndexOf(fileName, ".") + 1 # 0 THEN lastIndexOf(fileName, ".") + 1
            ELSE Len(fileName)))

guessMimeType(filePath) ==
    LET extension == IF getExtension(filePath) # <<>> THEN getExtension(filePath)
                     ELSE <<"png">>
    IN  IF extension \in DOMAIN mimeMap THEN mimeMap[extension]
        ELSE <<"image", extension>>

isSvg(mimeType) == mimeType = SvgMime

(* What loading a URL into an Image and exporting the canvas does: "ok",   *)
(* "onerror" (image.onerror fires) or "exportThrows" (toDataURL throws).   *)
RasterOutcomes == {"ok", "onerror", "exportThrows"}

(* The srcs an img of the rendered document can have, and the documents:   *)
(* the sequence of their img elements, each given by its src, and inline   *)
(* svg elements.                                                           *)
ImageSources ==
    {VaultUrl("png"), VaultUrl("svg"), ExternalUrl, DataUri(SvgMime, "inline"),
     DataUri(PngMime, "pixels")}

(* An inline svg element of the rendered document. *)
InlineSvg == [scheme |-> "svg", type |-> SvgMime, payload |-> "markup"]

Docs == UNION {[1..n -> ImageSources \cup {InlineSvg}] : n \in 0..NumImages}

Settings == [styleKnown : BOOLEAN, convertSvgToBitmap : BOOLEAN,
             disableImageEmbedding : BOOLEAN]

DEFAULT_SETTINGS ==
    [styleKnown |-> TRUE, convertSvgToBitmap |-> TRUE, disableImageEmbedding |-> FALSE]

----------------------------------------------------------------------------
(* No function is run on its own. *)
NoEmbed ==
    /\ node = <<>>
    /\ passStarts = <<>>
    /\ loads = <<>>

NoMime ==
    /\ mimePath = <<>>
    /\ mimeGuess = <<>>

NoList ==
    /\ content = <<>>
    /\ normalized = <<>>

NoPage ==
    /\ htmlBody = <<>>
    /\ title = ""
    /\ styles = <<>>
    /\ stringified = <<>>
    /\ htmlDocument = <<>>

NoCalls ==
    /\ NoEmbed
    /\ NoMime
    /\ NoList
    /\ NoPage

(* No copy operation has been requested. *)
NoCopies ==
    /\ now = StartTime
    /\ copyIsRunning = FALSE
    /\ ppIsProcessing = FALSE
    /\ ppLastBlockDate = StartTime
    /\ openBlocks = 0
    /\ nBlocks = 0
    /\ lastEndAt = -1
    /\ startSinceEnd = FALSE
    /\ pc = [o \in Ops |-> "idle"]
    /\ wakeAt = [o \in Ops |-> 0]
    /\ imgs = [o \in Ops |-> <<>>]
    /\ notices = [o \in Ops |-> [ok |-> 0, fail |-> 0]]
    /\ clip = [o \in Ops |-> 0]
    /\ modalOpen = [o \in Ops |-> FALSE]
    /\ wrappers = 0

Init ==
    /\ NoCalls
    /\ now = StartTime
    /\ copyIsRunning = FALSE
    /\ ppIsProcessing = FALSE
    /\ ppLastBlockDate = StartTime
    /\ openBlocks = 0
    /\ nBlocks = 0
    /\ lastEndAt = -1
    /\ startSinceEnd = FALSE
    /\ settings \in Settings
    /\ pc = [o \in Ops |-> "idle"]
    /\ wakeAt = [o \in Ops |-> 0]
    /\ imgs = [o \in Ops |-> <<>>]
    /\ notices = [o \in Ops |-> [ok |-> 0, fail |-> 0]]
    /\ clip = [o \in Ops |-> 0]
    /\ modalOpen = [o \in Ops |-> FALSE]
    /\ wrappers = 0

----------------------------------------------------------------------------
(* Positions of a copy request.                                            *)
(*   idle      not issued yet                                              *)
(*   reading   copyFromFile awaits vault.cachedRead                        *)
(*   render    doCopy awaits MarkdownRenderer.render                       *)
(*   sleep     untilRendered awaits delay(20)                              *)
(*   settled   untilRendered has returned                                  *)
(*   join      embedImages awaits allWithProgress                          *)
(*   svgJoin   renderSvg awaits allWithProgress                            *)
(*   assemble  transformHTML has returned its node                         *)
(*   writing   doCopy awaits navigator.clipboard.write                     *)
(*   done / failed     doCopy ended with the success / the failure notice  *)
(*   rejected  the command callback returned false                         *)
(*   aborted   copyFromView or copyFromFile returned before doCopy         *)

InTry == {"render", "sleep", "settled", "join", "svgJoin", "assemble", "writing"}

ViewKinds == {"ok", "noView", "noEditor", "noFile"}
FileKinds == {"md", "folder", "other"}

(* A request waits in renderMarkdown: for the renderer, or in untilRendered. *)
Rendering == \E o \in Ops : pc[o] \in {"render", "sleep"}

(* Time passes.  The clock is read by doCopy, by afterAllPostProcessor and *)
(* by untilRendered, which store it or compare differences of it; it is    *)
(* advanced while a request waits in renderMarkdown, where elapsed time is *)
(* observed.                                                               *)
Tick ==
    /\ Rendering
    /\ now + TickStep <= MaxTime
    /\ now' = now + TickStep
    /\ UNCHANGED <<globalVars, rendererVars, inputVars, pc, wakeAt, imgs,
                   outVars, modalOpen, wrappers>>

(* beforeAllPostProcessor: the renderer starts processing a block. *)
BlockStart ==
    /\ Rendering
    /\ nBlocks < MaxBlocks
    /\ ppIsProcessing' = TRUE
    /\ openBlocks' = openBlocks + 1
    /\ nBlocks' = nBlocks + 1
    /\ startSinceEnd' = TRUE
    /\ UNCHANGED <<now, copyIsRunning, ppLastBlockDate, lastEndAt, inputVars, pc,
                   wakeAt, imgs, outVars, modalOpen, wrappers>>

(* afterAllPostProcessor: the renderer finished processing a block. *)
BlockEnd ==
    /\ openBlocks > 0
    /\ ppLastBlockDate' = now
    /\ ppIsProcessing' = FALSE
    /\ openBlocks' = openBlocks - 1
    /\ lastEndAt' = now
    /\ startSinceEnd' = FALSE
    /\ UNCHANGED <<now, copyIsRunning, nBlocks, inputVars, pc, wakeAt, imgs,
                   outVars, modalOpen, wrappers>>

FinallyKeepsFlag == UNCHANGED copyIsRunning

(* doCopy's finally block. *)
Finally == copyIsRunning' = FALSE

CaughtWithoutNotice(o) ==
    /\ UNCHANGED notices
    /\ Finally
    /\ modalOpen' = [modalOpen EXCEPT ![o] = FALSE]
    /\ pc' = [pc EXCEPT ![o] = "failed"]

(* doCopy's catch and finally blocks, reached by an exception thrown in    *)
(* the try block; renderDocument's own finally has closed the modal.       *)
Caught(o) ==
    /\ notices' = [notices EXCEPT ![o].fail = @ + 1]
    /\ Finally
    /\ modalOpen' = [modalOpen EXCEPT ![o] = FALSE]
    /\ pc' = [pc EXCEPT ![o] = "failed"]

(* doCopy from its entry to its first await: the flags are set, the modal  *)
(* is opened by renderDocument and the hidden wrapper is attached by       *)
(* renderMarkdown, which calls MarkdownRenderer.render.                    *)
doCopy(o) ==
    /\ copyIsRunning' = TRUE
    /\ ppLastBlockDate' = now
    /\ ppIsProcessing' = TRUE
    /\ modalOpen' = [modalOpen EXCEPT ![o] = TRUE]
    /\ wrappers' = wrappers + 1
    /\ pc' = [pc EXCEPT ![o] = "render"]
    /\ UNCHANGED <<now, rendererVars, inputVars, wakeAt, imgs, outVars>>

(* Requests are numbered in the order in which the user issues them. *)
IsNextRequest(o) == pc[o] = "idle" /\ \A p \in Ops : p < o => pc[p] # "idle"

(* The 'smart-copy-to-mp' command, run with checking = false. *)
Command(o) ==
    /\ IsNextRequest(o)
    /\ IF copyIsRunning
       THEN /\ pc' = [pc EXCEPT ![o] = "rejected"]
            /\ UNCHANGED <<now, globalVars, rendererVars, inputVars, wakeAt,
                           imgs, outVars, modalOpen, wrappers>>
       ELSE \E view \in ViewKinds :
                CASE view = "noView" ->
                        /\ pc' = [pc EXCEPT ![o] = "rejected"]
                        /\ UNCHANGED <<now, globalVars, rendererVars, inputVars,
                                       wakeAt, imgs, outVars, modalOpen,
                                       wrappers>>
                  [] view \in {"noEditor", "noFile"} ->
                        /\ pc' = [pc EXCEPT ![o] = "aborted"]
                        /\ UNCHANGED <<now, globalVars, rendererVars, inputVars,
                                       wakeAt, imgs, outVars, modalOpen,
                                       wrappers>>
                  [] OTHER -> doCopy(o)

FileMenuFlagFirst(o) ==
    /\ IsNextRequest(o)
    /\ copyIsRunning' = TRUE
    /\ \E file \in FileKinds :
           pc' = [pc EXCEPT ![o] = IF file = "md" THEN "reading" ELSE "aborted"]
    /\ UNCHANGED <<now, ppIsProcessing, ppLastBlockDate, rendererVars, inputVars,
                   wakeAt, imgs, outVars, modalOpen, wrappers>>

(* The file-menu item: copyFromFile up to its await of cachedRead. *)
FileMenu(o) ==
    /\ IsNextRequest(o)
    /\ \E file \in FileKinds :
           pc' = [pc EXCEPT ![o] = IF file = "md" THEN "reading" ELSE "aborted"]
    /\ UNCHANGED <<now, globalVars, rendererVars, inputVars, wakeAt, imgs,
                   outVars, modalOpen, wrappers>>

(* cachedRead resolved: copyFromFile calls doCopy. *)
FileRead(o) ==
    /\ pc[o] = "reading"
    /\ doCopy(o)

untilRenderedWaitsNoWindow == ppIsProcessing

(* untilRendered: the condition of its loop. *)
untilRenderedWaits ==
    ppIsProcessing \/ now - ppLastBlockDate < optionRenderSettlingDelay

(* untilRendered: one evaluation of the loop, up to delay(20) or return. *)
untilRendered(o) ==
    IF untilRenderedWaits /\ ppLastBlockDate # 0
    THEN /\ pc' = [pc EXCEPT ![o] = "sleep"]
         /\ wakeAt' = [wakeAt EXCEPT ![o] = now + PollDelay]
    ELSE /\ pc' = [pc EXCEPT ![o] = "settled"]
         /\ wakeAt' = [wakeAt EXCEPT ![o] = 0]

(* MarkdownRenderer.render resolved: renderMarkdown goes on to untilRendered. *)
RenderResolved(o) ==
    /\ pc[o] = "render"
    /\ untilRendered(o)
    /\ UNCHANGED <<now, globalVars, rendererVars, inputVars, imgs, outVars,
                   modalOpen, wrappers>>

(* MarkdownRenderer.render rejected. *)
RenderRejected(o) ==
    /\ pc[o] = "render"
    /\ Caught(o)
    /\ UNCHANGED <<now, ppIsProcessing, ppLastBlockDate, rendererVars, inputVars,
                   wakeAt, imgs, clip, wrappers>>

(* The delay(20) timer fired. *)
PollWake(o) ==
    /\ pc[o] = "sleep"
    /\ now >= wakeAt[o]
    /\ untilRendered(o)
    /\ UNCHANGED <<now, globalVars, rendererVars, inputVars, imgs, outVars,
                   modalOpen, wrappers>>

needsResolutionNoSvgBranch(src) == src.scheme # "data"

(* embedImages: whether an img gets a resolution (it has a src that is no  *)
(* data URI, or is an svg data URI and svgs are converted to bitmaps).     *)
needsResolution(src) ==
    \/ src.scheme = "data" /\ src.type = SvgMime /\ settings.convertSvgToBitmap
    \/ src.scheme # "data"

imageToDataUriPartial(url, outcome) ==
    IF outcome = "ok" THEN DataUri(PngMime, "pixels") ELSE DataUri(PngMime, "blank")

(* imageToDataUri: the data URI of the drawn canvas, or the url it was     *)
(* given when the image does not load or the canvas cannot be exported.    *)
imageToDataUri(url, outcome) ==
    IF outcome = "ok" THEN DataUri(PngMime, "pixels") ELSE url

(* readFromVault: the file's content as a data URI of the guessed type. *)
readFromVault(src) == DataUri(guessMimeType(<<"a", ".">> \o src.type[2]), "file")

(* An img or svg of a cloned tree: orig is the src the renderer gave it    *)
(* (InlineSvg for an svg element), src its src now, st the state of its    *)
(* resolution, url what imageToDataUri was                                 *)
(* called with and how that call ended: "ok" with the canvas' data URI,    *)
(* "fallback" with the url it was given, "none" while it has not ended.    *)
(*   skipped   embedImages started no resolution for it                    *)
(*   svg       an svg element that renderSvg has not replaced              *)
(*   reading   replaceImageSource awaits readBinary                        *)
(*   loading   replaceImageSource awaits imageToDataUri(url)               *)
(*   resolved / rejected   its promise has settled                         *)
Img(orig, src, url, st, how) ==
    [orig |-> orig, src |-> src, url |-> url, st |-> st, how |-> how]

(* replaceImageSource from its entry to its first await; found tells       *)
(* whether getAbstractFileByPath returns a TFile for a vault path.         *)
replaceImageSource(src, found) ==
    IF src.scheme = "app"
    THEN Img(src, src, src, IF found THEN "reading" ELSE "rejected", "none")
    ELSE Img(src, src, src, "loading", "none")

(* An element that no pass has touched. *)
untouched(e) == Img(e, e, e, IF e = InlineSvg THEN "svg" ELSE "skipped", "none")

(* embedImages: the resolutions it starts for the img elements. *)
embedImages(d, found) ==
    [i \in 1..Len(d) |->
        IF d[i] # InlineSvg /\ needsResolution(d[i])
        THEN replaceImageSource(d[i], found[i])
        ELSE untouched(d[i])]

(* renderSvg: replaceSvg serializes each svg element into a data URI and   *)
(* awaits imageToDataUri of it.                                            *)
renderSvg(els) ==
    [i \in 1..Len(els) |->
        IF els[i].st = "svg"
        THEN Img(els[i].orig, els[i].src, DataUri(SvgMime, "serialized"), "loading",
                 "none")
        ELSE els[i]]

(* NumImages bounds the img and svg elements of all requests together. *)
RECURSIVE sumLen(_, _)
sumLen(f, S) ==
    IF S = {} THEN 0
    ELSE LET x == CHOOSE y \in S : TRUE IN Len(f[x]) + sumLen(f, S \ {x})

imagesOfOthers(o) == sumLen(imgs, Ops \ {o})

(* renderMarkdown after untilRendered (the wrapper is cloned and removed)  *)
(* and transformHTML up to the await in embedImages; d is the document the *)
(* renderer produced.                                                      *)
Transform(o) ==
    /\ pc[o] = "settled"
    /\ wrappers' = wrappers - 1
    /\ \E d \in Docs, found \in [1..NumImages -> BOOLEAN] :
        /\ Len(d) + imagesOfOthers(o) <= NumImages
        /\ IF settings.disableImageEmbedding
           THEN /\ imgs' = [imgs EXCEPT ![o] = [i \in 1..Len(d) |-> untouched(d[i])]]
                /\ pc' = [pc EXCEPT ![o] = "assemble"]
           ELSE /\ imgs' = [imgs EXCEPT ![o] = embedImages(d, found)]
                /\ pc' = [pc EXCEPT ![o] = "join"]
    /\ UNCHANGED <<now, globalVars, rendererVars, inputVars, wakeAt,
                   outVars, modalOpen>>

(* readBinary resolved: replaceImageSource sets the src to the file's data *)
(* URI, or rasterizes it when it is an svg.                                *)
VaultRead(o, i) ==
    /\ i \in 1..Len(imgs[o])
    /\ imgs[o][i].st = "reading"
    /\ LET data == readFromVault(imgs[o][i].src)
       IN  imgs' = [imgs EXCEPT ![o][i] =
               IF isSvg(data.type) /\ settings.convertSvgToBitmap
               THEN Img(@.orig, @.src, data, "loading", "none")
               ELSE Img(@.orig, data, @.url, "resolved", "none")]
    /\ UNCHANGED <<now, globalVars, rendererVars, inputVars, pc, wakeAt,
                   outVars, modalOpen, wrappers>>

(* image.onload or image.onerror fired: imageToDataUri resolves and        *)
(* replaceImageSource assigns the result to the src (replaceSvg: to the    *)
(* src of the img that replaces the svg).                                  *)
ImageLoaded(o, i) ==
    /\ i \in 1..Len(imgs[o])
    /\ imgs[o][i].st = "loading"
    /\ \E outcome \in RasterOutcomes :
        imgs' = [imgs EXCEPT ![o][i] =
            Img(@.orig, imageToDataUri(@.url, outcome), @.url, "resolved",
                IF outcome = "ok" THEN "ok" ELSE "fallback")]
    /\ UNCHANGED <<now, globalVars, rendererVars, inputVars, pc, wakeAt,
                   outVars, modalOpen, wrappers>>

(* allWithProgress returns Promise.all(promises): it resolves once every   *)
(* promise has resolved, and rejects as soon as one has rejected.          *)
allResolved(o) ==
    \A i \in 1..Len(imgs[o]) : imgs[o][i].st \in {"resolved", "skipped", "svg"}
someRejected(o) == \E i \in 1..Len(imgs[o]) : imgs[o][i].st = "rejected"

(* embedImages returns; transformHTML calls renderSvg, which returns at    *)
(* once unless svgs are converted to bitmaps.                              *)
JoinResolved(o) ==
    /\ pc[o] = "join"
    /\ allResolved(o)
    /\ IF settings.convertSvgToBitmap
       THEN /\ imgs' = [imgs EXCEPT ![o] = renderSvg(@)]
            /\ pc' = [pc EXCEPT ![o] = "svgJoin"]
       ELSE /\ pc' = [pc EXCEPT ![o] = "assemble"]
            /\ UNCHANGED imgs
    /\ UNCHANGED <<now, globalVars, rendererVars, inputVars, wakeAt,
                   outVars, modalOpen, wrappers>>

(* renderSvg's await of allWithProgress completes: imageToDataUri never    *)
(* rejects, so this join resolves.                                         *)
SvgJoinResolved(o) ==
    /\ pc[o] = "svgJoin"
    /\ allResolved(o)
    /\ pc' = [pc EXCEPT ![o] = "assemble"]
    /\ UNCHANGED <<now, globalVars, rendererVars, inputVars, wakeAt, imgs,
                   outVars, modalOpen, wrappers>>

JoinRejected(o) ==
    /\ pc[o] = "join"
    /\ someRejected(o)
    /\ Caught(o)
    /\ UNCHANGED <<now, ppIsProcessing, ppLastBlockDate, rendererVars, inputVars,
                   wakeAt, imgs, clip, wrappers>>

(* applyInlineStyles reads styleObj.styles of STYLES[styleKey]. *)
applyInlineStylesThrows == ~settings.styleKnown

(* renderDocument returns (its finally closes the modal); doCopy builds    *)
(* the html string, styles it and calls navigator.clipboard.write.         *)
Assemble(o) ==
    /\ pc[o] = "assemble"
    /\ IF applyInlineStylesThrows
       THEN Caught(o)
       ELSE /\ modalOpen' = [modalOpen EXCEPT ![o] = FALSE]
            /\ pc' = [pc EXCEPT ![o] = "writing"]
            /\ UNCHANGED <<copyIsRunning, notices>>
    /\ UNCHANGED <<now, ppIsProcessing, ppLastBlockDate, rendererVars, inputVars,
                   wakeAt, imgs, clip, wrappers>>

(* navigator.clipboard.write resolved. *)
WriteResolved(o) ==
    /\ pc[o] = "writing"
    /\ clip' = [clip EXCEPT ![o] = @ + 1]
    /\ notices' = [notices EXCEPT ![o].ok = @ + 1]
    /\ Finally
    /\ pc' = [pc EXCEPT ![o] = "done"]
    /\ UNCHANGED <<now, ppIsProcessing, ppLastBlockDate, rendererVars, inputVars,
                   wakeAt, imgs, modalOpen, wrappers>>

(* navigator.clipboard.write rejected. *)
WriteRejected(o) ==
    /\ pc[o] = "writing"
    /\ Caught(o)
    /\ UNCHANGED <<now, ppIsProcessing, ppLastBlockDate, rendererVars, inputVars,
                   wakeAt, imgs, clip, wrappers>>

Next ==
    \/ Tick
    \/ BlockStart
    \/ BlockEnd
    \/ \E o \in Ops :
        \/ Command(o)
        \/ FileMenu(o)
        \/ FileRead(o)
        \/ RenderResolved(o)
        \/ RenderRejected(o)
        \/ PollWake(o)
        \/ Transform(o)
        \/ \E i \in 1..NumImages : VaultRead(o, i) \/ ImageLoaded(o, i)
        \/ JoinResolved(o)
        \/ JoinRejected(o)
        \/ SvgJoinResolved(o)
        \/ Assemble(o)
        \/ WriteResolved(o)
        \/ WriteRejected(o)

Spec == Init /\ [][Next]_vars

----------------------------------------------------------------------------
(* embedImages run on its own, several times on one tree.  The tree is the *)
(* sequence of the srcs of its img elements; loads gives, for every url    *)
(* an Image can be asked to load and every vault file, what comes of it,   *)
(* the same at every pass.                                                 *)

MaxPasses == 2

(* The urls that imageToDataUri can be given. *)
LoadUrls == {ExternalUrl, DataUri(SvgMime, "inline"), DataUri(SvgMime, "file")}
VaultFiles == {VaultUrl("png"), VaultUrl("svg")}

Trees == UNION {[1..n -> ImageSources] : n \in 0..NumImages}

(* replaceImageSource, from its call to the settling of its promise: the   *)
(* src the img has then.  A vault file that is not found leaves the src as *)
(* it is (readFromVault throws).                                           *)
replaceImageSourceSettled(src) ==
    IF src.scheme = "app"
    THEN IF ~loads.found[src] THEN src
         ELSE LET data == readFromVault(src)
              IN  IF isSvg(data.type) /\ settings.convertSvgToBitmap
                  THEN imageToDataUri(data, loads.outcome[data])
                  ELSE data
    ELSE imageToDataUri(src, loads.outcome[src])

(* embedImages, from its call to the settling of all its resolutions. *)
embedImagesSettled(tree) ==
    [i \in 1..Len(tree) |->
        IF needsResolution(tree[i]) THEN replaceImageSourceSettled(tree[i])
        ELSE tree[i]]

InitEmbed ==
    /\ NoCopies
    /\ NoMime
    /\ NoList
    /\ NoPage
    /\ settings \in Settings
    /\ node \in Trees
    /\ passStarts = <<>>
    /\ loads \in [outcome : [LoadUrls -> RasterOutcomes],
                  found : [VaultFiles -> BOOLEAN]]

EmbedPass ==
    /\ Len(passStarts) < MaxPasses
    /\ passStarts' = Append(passStarts, node)
    /\ node' = embedImagesSettled(node)
    /\ UNCHANGED <<copyVars, settings, loads, mimeVars, listVars, pageVars>>

NextEmbed == EmbedPass

SpecEmbed == InitEmbed /\ [][NextEmbed]_vars

----------------------------------------------------------------------------
(* guessMimeType run on its own, on every path of at most MaxPathLen       *)
(* tokens.                                                                 *)

MaxPathLen == 5

Paths ==
    {t \in UNION {[1..n -> PathTokens] : n \in 0..MaxPathLen} :
        \A i \in 1..(Len(t) - 1) : ~(t[i] \in PathWords /\ t[i + 1] \in PathWords)}

InitMime ==
    /\ NoCopies
    /\ NoEmbed
    /\ NoList
    /\ NoPage
    /\ settings = DEFAULT_SETTINGS
    /\ mimePath \in Paths
    /\ mimeGuess = <<>>

GuessMime ==
    /\ mimeGuess = <<>>
    /\ mimeGuess' = guessMimeType(mimePath)
    /\ UNCHANGED <<copyVars, settings, embedVars, mimePath, listVars, pageVars>>

NextMime == GuessMime

SpecMime == InitMime /\ [][NextMime]_vars

----------------------------------------------------------------------------
(* The render phase on its own, for what untilRendered does in the long    *)
(* run: requests up to the return of untilRendered, the renderer emitting  *)
(* the block events of the first request's document, and fair timers.      *)

(* The clock of the model stops at MaxTime: a block ends, and a doCopy     *)
(* starts, early enough for the settling window after it to end before.    *)
TimeLeft == now + optionRenderSettlingDelay <= MaxTime

FirstRenders == pc[1] \in {"render", "sleep"}

(* MaxTime stands for every later time too: a delay(20) timer set at       *)
(* MaxTime fires, and untilRendered evaluates its loop again.              *)
PollWakeLate(o) ==
    /\ pc[o] = "sleep"
    /\ now = MaxTime
    /\ untilRendered(o)
    /\ UNCHANGED <<now, globalVars, rendererVars, inputVars, imgs, outVars,
                   modalOpen, wrappers>>

NextLive ==
    \/ Tick
    \/ (FirstRenders /\ BlockStart)
    \/ (TimeLeft /\ BlockEnd)
    \/ \E o \in Ops :
        \/ (TimeLeft /\ Command(o))
        \/ FileMenu(o)
        \/ (TimeLeft /\ FileRead(o))
        \/ RenderResolved(o)
        \/ RenderRejected(o)
        \/ PollWake(o)
        \/ PollWakeLate(o)

(* setTimeout fires its callback once the delay has passed, and time       *)
(* passes.                                                                 *)
FairTimers ==
    /\ WF_vars(Tick)
    /\ \A o \in Ops : WF_vars(PollWake(o)) /\ WF_vars(PollWakeLate(o))

SpecLive == Init /\ [][NextLive]_vars /\ FairTimers

----------------------------------------------------------------------------
(* preprocessMarkdownList run on its own.  A text is the sequence of its   *)
(* characters.  A regular expression is a sequence of atoms: the start or  *)
(* the end of a line, one character of a class, a greedy or lazy           *)
(* repetition of a class, or the start or the end of a capture group.      *)

Whitespace == {" ", "\n", "\t"}
Digits == {"0", "1", "2", "3", "4", "5", "6", "7", "8", "9"}

(* Whether character c is in the class: \s, \d, [^:\n], the wildcard .,   *)
(* the escaped dot or a literal.                                           *)
InClass(c, cls) ==
    CASE cls = "\\s" -> c \in Whitespace
      [] cls = "\\d" -> c \in Digits
      [] cls = "[^:\\n]" -> c \notin {":", "\n"}
      [] cls = "." -> c # "\n"
      [] cls = "\\." -> c = "."
      [] OTHER -> c = cls

Atom(kind, cls) == [kind |-> kind, cls |-> cls]
Bol == Atom("^", "")
Eol == Atom("$", "")
One(cls) == Atom("one", cls)
Star(cls) == Atom("*", cls)
Plus(cls) == Atom("+", cls)
LazyPlus(cls) == Atom("+?", cls)
Open(g) == Atom("(", g)
Close(g) == Atom(")", g)

(* The length of the longest run of characters of the class from pos on. *)
RECURSIVE RunLength(_, _, _)
RunLength(text, cls, pos) ==
    IF pos <= Len(text) /\ InClass(text[pos], cls)
    THEN 1 + RunLength(text, cls, pos + 1)
    ELSE 0

(* The backtracking matcher: the match of atoms[i..] at pos that the       *)
(* engine finds first, as the sequence of the positions before each of     *)
(* these atoms and after the last one; <<>> when there is none.  A greedy  *)
(* repetition tries its longest run first, a lazy one its shortest.        *)
RECURSIVE Match(_, _, _, _), MatchRun(_, _, _, _, _, _, _)
Match(text, atoms, i, pos) ==
    IF i > Len(atoms) THEN <<pos>>
    ELSE LET a == atoms[i]
             rest(p) == LET r == Match(text, atoms, i + 1, p)
                        IN  IF r = <<>> THEN <<>> ELSE <<pos>> \o r
             run == RunLength(text, a.cls, pos)
         IN  CASE a.kind = "^" ->
                    IF pos = 1 \/ text[pos - 1] = "\n" THEN rest(pos) ELSE <<>>
               [] a.kind = "$" ->
                    IF pos = Len(text) + 1 \/ text[pos] = "\n" THEN rest(pos) ELSE <<>>
               [] a.kind \in {"(", ")"} -> rest(pos)
               [] a.kind = "one" ->
                    IF pos <= Len(text) /\ InClass(text[pos], a.cls)
                    THEN rest(pos + 1) ELSE <<>>
               [] a.kind = "*" -> MatchRun(text, atoms, i, pos, run, 0, -1)
               [] a.kind = "+" ->
                    IF run = 0 THEN <<>> ELSE MatchRun(text, atoms, i, pos, run, 1, -1)
               [] OTHER ->
                    IF run = 0 THEN <<>> ELSE MatchRun(text, atoms, i, pos, 1, run, 1)

(* A repetition that takes n characters, then n + step, up to last. *)
MatchRun(text, atoms, i, pos, n, last, step) ==
    LET r == Match(text, atoms, i + 1, pos + n)
    IN  IF r # <<>> THEN <<pos>> \o r
        ELSE IF n = last THEN <<>>
        ELSE MatchRun(text, atoms, i, pos, n + step, last, step)

(* The alternatives of a pattern are tried in order. *)
RECURSIVE MatchAny(_, _, _, _)
MatchAny(text, alts, k, pos) ==
    IF k > Len(alts) THEN [alt |-> 0, at |-> <<>>]
    ELSE LET m == Match(text, alts[k], 1, pos)
         IN  IF m # <<>> THEN [alt |-> k, at |-> m]
             ELSE MatchAny(text, alts, k + 1, pos)

(* The text that capture group g of a match holds. *)
Group(text, atoms, at, g) ==
    LET i == CHOOSE i \in 1..Len(atoms) : atoms[i] = Open(g)
        j == CHOOSE j \in 1..Len(atoms) : atoms[j] = Close(g)
    IN  SubSeq(text, at[i], at[j] - 1)

(* String.prototype.replace with a global pattern and the replacement      *)
(* '$1' + sep + '$2': the matches are looked for from left to right in the *)
(* text, each from the end of the one before.                              *)
RECURSIVE ReplaceFrom(_, _, _, _, _)
ReplaceFrom(text, alts, sep, from, start) ==
    IF start > Len(text) THEN SubSeq(text, from, Len(text))
    ELSE LET m == MatchAny(text, alts, 1, start)
             end == m.at[Len(m.at)]
         IN  IF m.alt = 0 THEN ReplaceFrom(text, alts, sep, from, start + 1)
             ELSE SubSeq(text, from, start - 1)
                    \o Group(text, alts[m.alt], m.at, "1") \o sep
                    \o Group(text, alts[m.alt], m.at, "2")
                    \o ReplaceFrom(text, alts, sep, end, end)

replace(text, alts, sep) == ReplaceFrom(text, alts, sep, 1, 1)

(* The list marker M of the four patterns: (?: \d+\. | - | \* ) *)
Markers == << <<Plus("\\d"), One("\\.")>>, <<One("-")>>, <<One("*")>> >>

(* The head of the four patterns, ^(\s* M \s+ , followed by the rest of   *)
(* each, for each alternative of the marker.                               *)
WithMarkers(tail) ==
    [k \in 1..Len(Markers) |->
        <<Bol, Open("1"), Star("\\s")>> \o Markers[k] \o <<Plus("\\s")>> \o tail]

ColonOnNextLineUnindented ==
    WithMarkers(<<Plus("[^:\\n]"), Close("1"), One("\n"), One(":"),
                  Star("\\s"), Open("2"), LazyPlus("."), Close("2"), Eol>>)

(* line 337: /^(\s* M \s+[^:\n]+)\n\s*:\s*(.+?)$/gm *)
ColonOnNextLine ==
    WithMarkers(<<Plus("[^:\\n]"), Close("1"), One("\n"), Star("\\s"), One(":"),
                  Star("\\s"), Open("2"), LazyPlus("."), Close("2"), Eol>>)

(* line 338: /^(\s* M \s+.+?:)\s*\n\s+(.+?)$/gm *)
ColonAtLineEnd ==
    WithMarkers(<<LazyPlus("."), One(":"), Close("1"), Star("\\s"), One("\n"),
                  Plus("\\s"), Open("2"), LazyPlus("."), Close("2"), Eol>>)

(* line 339: /^(\s* M \s+[^:\n]+)\n:\s*(.+?)$/gm *)
ColonFirstOnNextLine ==
    WithMarkers(<<Plus("[^:\\n]"), Close("1"), One("\n"), One(":"), Star("\\s"),
                  Open("2"), LazyPlus("."), Close("2"), Eol>>)

(* line 340: /^(\s* M \s+.+?)\n\n\s+(.+?)$/gm *)
AfterBlankLine ==
    WithMarkers(<<LazyPlus("."), Close("1"), One("\n"), One("\n"), Plus("\\s"),
                  Open("2"), LazyPlus("."), Close("2"), Eol>>)

preprocessMarkdownList(text) ==
    LET c1 == replace(text, ColonOnNextLine, <<":", " ">>)
        c2 == replace(c1, ColonAtLineEnd, <<" ">>)
        c3 == replace(c2, ColonFirstOnNextLine, <<":", " ">>)
    IN  replace(c3, AfterBlankLine, <<" ">>)

MaxTextLen == 7

(* The characters of the texts that are tried in every combination, and    *)
(* texts with the other markers.                                           *)
TextChars == {"-", " ", ":", "a", "\n"}

MoreTexts ==
    { <<"-", " ", "i", "t", "e", "m", " ", "o", "n", "e", "\n", " ", " ", ":", " ",
        "c", "o", "n", "t", "i", "n", "u", "a", "t", "i", "o", "n", " ",
        "t", "e", "x", "t">>,
      <<"1", "2", ".", " ", "a", "\n", ":", " ", "b">>,
      <<"*", " ", "a", "\n", " ", ":", "b">>,
      <<"1", ".", " ", "a", ":", "\n", " ", "b">>,
      <<"*", " ", "a", "\n", "\n", " ", "b">>,
      <<"1", "2", " ", "a", "\n", ":", " ", "b">> }

Texts == UNION {[1..n -> TextChars] : n \in 0..MaxTextLen} \cup MoreTexts

InitList ==
    /\ NoCopies
    /\ NoEmbed
    /\ NoMime
    /\ NoPage
    /\ settings = DEFAULT_SETTINGS
    /\ content \in Texts
    /\ normalized = <<"?">>

Normalize ==
    /\ normalized = <<"?">>
    /\ normalized' = preprocessMarkdownList(content)
    /\ UNCHANGED <<copyVars, settings, embedVars, mimeVars, content, pageVars>>

NextList == Normalize

SpecList == InitList /\ [][NextList]_vars

----------------------------------------------------------------------------
(* The assembly of the clipboard html run on its own: doCopy, lines 247 to *)
(* 258, on the element returned by renderDocument.                         *)
(*                                                                         *)
(* A DOM node is an element (tag, class attribute, style attribute as the  *)
(* sequence of its tokens, children) or a text node (its data, a sequence  *)
(* of tokens). An html string is the sequence of its tokens: "<" tag       *)
(* attributes ">" children "</" tag ">".                                   *)

Element(tag, class, style, kids) ==
    [tag |-> tag, class |-> class, style |-> style, kids |-> kids, data |-> <<>>]

TextNode(data) ==
    [tag |-> "#text", class |-> "", style |-> <<>>, kids |-> <<>>, data |-> data]

ClassAttr == " class=\""
StyleAttr == " style=\""
Quote == "\""
VoidTags == {"img", "meta"}
SyntaxTokens == {"<", "</", ">", ClassAttr, StyleAttr, Quote}

RECURSIVE outerHTML(_)
RECURSIVE innerHTMLOf(_, _)

(* Element.outerHTML / the serialization of a text node. *)
outerHTML(n) ==
    IF n.tag = "#text"
    THEN n.data
    ELSE <<"<", n.tag>>
         \o (IF n.class = "" THEN <<>> ELSE <<ClassAttr, n.class, Quote>>)
         \o (IF n.style = <<>> THEN <<>> ELSE <<StyleAttr>> \o n.style \o <<Quote>>)
         \o <<">">>
         \o (IF n.tag \in VoidTags
             THEN <<>>
             ELSE innerHTMLOf(n.kids, 1) \o <<"</", n.tag, ">">>)

innerHTMLOf(kids, i) ==
    IF i > Len(kids) THEN <<>> ELSE outerHTML(kids[i]) \o innerHTMLOf(kids, i + 1)

(* Element.innerHTML *)
innerHTML(n) == innerHTMLOf(n.kids, 1)

(* The tree builder of DOMParser: the nodes that start at token i of the   *)
(* html, up to the end tag of their parent, and the index of that end tag. *)
(* Adjacent text tokens make one text node.                                *)
RECURSIVE parseNodes(_, _)
parseNodes(html, i) ==
    IF i > Len(html) \/ html[i] = "</"
    THEN [nodes |-> <<>>, next |-> i]
    ELSE IF html[i] = "<"
    THEN LET tag == html[i + 1]
             hasClass == html[i + 2] = ClassAttr
             class == IF hasClass THEN html[i + 3] ELSE ""
             j == IF hasClass THEN i + 5 ELSE i + 2
             hasStyle == html[j] = StyleAttr
             q == IF hasStyle
                  THEN CHOOSE q \in (j + 1)..Len(html) :
                          html[q] = Quote /\ \A k \in (j + 1)..(q - 1) : html[k] # Quote
                  ELSE j - 1
             style == IF hasStyle THEN SubSeq(html, j + 1, q - 1) ELSE <<>>
             inner == IF tag \in VoidTags
                      THEN [nodes |-> <<>>, next |-> q + 2]
                      ELSE parseNodes(html, q + 2)
             rest == parseNodes(html, IF tag \in VoidTags THEN q + 2 ELSE inner.next + 3)
         IN  [nodes |-> <<Element(tag, class, style, inner.nodes)>> \o rest.nodes,
              next |-> rest.next]
    ELSE LET end == CHOOSE e \in i..Len(html) :
                        /\ \A k \in i..e : html[k] \notin SyntaxTokens
                        /\ e = Len(html) \/ html[e + 1] \in SyntaxTokens
             rest == parseNodes(html, end + 1)
         IN  [nodes |-> <<TextNode(SubSeq(html, i, end))>> \o rest.nodes,
              next |-> rest.next]

Doctype == "<!DOCTYPE html>"

(* DEFAULT_HTML_TEMPLATE with its placeholders replaced (lines 48-62,      *)
(* 451-454); the MERMAID_STYLESHEET placeholder stays as it is.            *)
expandHtmlTemplate(html, docTitle) ==
    <<Doctype, "\n", "<", "html", ">", "\n", "<", "head", ">", "\n", " ",
      "<", "meta", ">", "\n", " ", "<", "title", ">", docTitle, "</", "title", ">",
      "\n", " ", "<", "style", ">", "\n", " ", "${MERMAID_STYLESHEET}", "\n", " ",
      settings.styleSheet, "\n", " ", "</", "style", ">", "\n", "</", "head", ">",
      "\n", "<", "body", ">", "\n">>
    \o html
    \o <<"\n", "</", "body", ">", "\n", "</", "html", ">", "\n">>

(* Adjacent text nodes appended by the parser are one text node. *)
appendText(kids, data) ==
    IF kids # <<>> /\ kids[Len(kids)].tag = "#text"
    THEN [kids EXCEPT ![Len(kids)] = TextNode(@.data \o data)]
    ELSE Append(kids, TextNode(data))

(* DOMParser.parseFromString(html, 'text/html'): a document with a head    *)
(* and a body. The html of a whole document gives the children of its head *)
(* and of its body elements, and the white space after the end tag of the  *)
(* body goes to the end of the body; any other html is the content of the  *)
(* body of a document with an empty head.                                  *)
parseFromString(html) ==
    IF html # <<>> /\ html[1] = Doctype
    THEN LET top == parseNodes(html, 2).nodes
             h == CHOOSE k \in 1..Len(top) : top[k].tag = "html"
             root == top[h]
             headEl == root.kids[CHOOSE k \in 1..Len(root.kids) : root.kids[k].tag = "head"]
             b == CHOOSE k \in 1..Len(root.kids) : root.kids[k].tag = "body"
             after == [k \in 1..(Len(root.kids) - b) |-> root.kids[b + k]]
                      \o [k \in 1..(Len(top) - h) |-> top[h + k]]
             RECURSIVE trailing(_, _)
             trailing(kids, k) ==
                 IF k > Len(after) THEN kids
                 ELSE trailing(appendText(kids, after[k].data), k + 1)
         IN  [head |-> headEl.kids, body |-> trailing(root.kids[b].kids, 1)]
    ELSE [head |-> <<>>, body |-> parseNodes(html, 1).nodes]

PreStyle ==
    <<"background: linear-gradient(to bottom, #2a2c33 0%, #383a42 8px, #383a42 100%);",
      "padding: 0;", "border-radius: 6px;", "overflow: hidden;", "margin: 24px 0;",
      "box-shadow: 0 2px 8px rgba(0,0,0,0.15);">>

CodeStyle ==
    <<"color: #abb2bf;",
      "font-family: \"SF Mono\", Consolas, Monaco, \"Courier New\", monospace;",
      "font-size: 14px;", "line-height: 1.7;", "display: block;", "white-space: pre;",
      "padding: 16px 20px;", "-webkit-font-smoothing: antialiased;",
      "-moz-osx-font-smoothing: grayscale;">>

(* Whether the node is matched by 'pre:has(> code)'. *)
IsCodeBlock(n) ==
    n.tag = "pre" /\ \E k \in 1..Len(n.kids) : n.kids[k].tag = "code"

RECURSIVE firstCode(_, _)
RECURSIVE simplifyIn(_, _)

(* block.querySelector('code'): the first code element under the block, in *)
(* document order (<<>>: none among these nodes).                          *)
firstCode(kids, i) ==
    IF i > Len(kids) THEN <<>>
    ELSE IF kids[i].tag = "code" THEN <<kids[i]>>
    ELSE LET below == firstCode(kids[i].kids, 1)
         IN  IF below # <<>> THEN below ELSE firstCode(kids, i + 1)

(* The forEach of lines 295-328 over these nodes and what is under them: a *)
(* code block is replaced by a new pre with a new code element that holds  *)
(* the parsed innerHTML of its code element; what was under a replaced     *)
(* block is no longer in the tree.                                         *)
simplifyIn(kids, i) ==
    IF i > Len(kids) THEN <<>>
    ELSE LET n == kids[i]
             m == IF IsCodeBlock(n)
                  THEN LET codeElement == firstCode(n.kids, 1)[1]
                           fragment == parseNodes(innerHTML(codeElement), 1).nodes
                       IN  Element("pre", "", PreStyle,
                                   <<Element("code", "", CodeStyle, fragment)>>)
                  ELSE [n EXCEPT !.kids = simplifyIn(n.kids, 1)]
         IN  <<m>> \o simplifyIn(kids, i + 1)

(* lines 284-333 *)
simplifyCodeBlocks(htmlString) ==
    LET doc == parseFromString(htmlString)
        children == SelectSeq(doc.body, LAMBDA n : n.tag # "#text")
        tempDiv == Element("div", "", <<>>, simplifyIn(children, 1))
    IN  innerHTML(tempDiv)

(* A path names a node of the body: the indices of the children to follow. *)
RECURSIVE nodeAt(_, _)
nodeAt(kids, path) ==
    IF Len(path) = 1 THEN kids[path[1]]
    ELSE nodeAt(kids[path[1]].kids, Tail(path))

RECURSIVE replaceAt(_, _, _)
replaceAt(kids, path, n) ==
    IF Len(path) = 1 THEN [kids EXCEPT ![path[1]] = n]
    ELSE [kids EXCEPT ![path[1]] = [@ EXCEPT !.kids = replaceAt(@, Tail(path), n)]]

(* The paths of the elements under these nodes, in document order. *)
RECURSIVE elementPaths(_, _, _)
elementPaths(kids, prefix, i) ==
    IF i > Len(kids) THEN <<>>
    ELSE (IF kids[i].tag = "#text"
          THEN <<>>
          ELSE <<Append(prefix, i)>> \o elementPaths(kids[i].kids, Append(prefix, i), 1))
         \o elementPaths(kids, prefix, i + 1)

IsProperPrefix(p, q) == Len(p) < Len(q) /\ SubSeq(q, 1, Len(p)) = p

(* A selector is a sequence of tag names joined by the descendant          *)
(* combinator: whether the last of them names the element at the path and  *)
(* the others name ancestors of it, in this order.                         *)
RECURSIVE matchesUnder(_, _, _, _)
matchesUnder(body, path, selector, k) ==
    IF k = 0 THEN TRUE
    ELSE \E n \in 1..(Len(path) - 1) :
            /\ nodeAt(body, SubSeq(path, 1, n)).tag = selector[k]
            /\ matchesUnder(body, SubSeq(path, 1, n), selector, k - 1)

matches(body, path, selector) ==
    /\ nodeAt(body, path).tag = selector[Len(selector)]
    /\ matchesUnder(body, path, selector, Len(selector) - 1)

(* doc.querySelectorAll(selector): a static list, in document order. *)
querySelectorAll(body, selector) ==
    SelectSeq(elementPaths(body, <<>>, 1), LAMBDA path : matches(body, path, selector))

(* el.closest('.image-grid') *)
closestImageGrid(body, path) ==
    \E n \in 1..Len(path) : nodeAt(body, SubSeq(path, 1, n)).class = "image-grid"

(* style[key] of the style object: the declaration of the key, or the      *)
(* string that undefined is converted to.                                  *)
styleOf(style, key) ==
    IF \E k \in 1..Len(style) : style[k].selector = key
    THEN style[CHOOSE k \in 1..Len(style) : style[k].selector = key].declaration
    ELSE "undefined"

SkippedSelectors == {<<"pre">>, <<"code">>, <<"pre", "code">>}

(* elements.forEach of lines 359-389, from element i of the list on. An li *)
(* gets a p with copies of its children as its only child, so the elements *)
(* of the list that were under it are no longer in the document (detached  *)
(* holds the paths of the li elements handled so far); what is done to     *)
(* such an element does not show in the document.                          *)
RECURSIVE styleElements(_, _, _, _, _, _)
styleElements(body, elements, i, detached, style, selector) ==
    IF i > Len(elements) THEN body
    ELSE LET path == elements[i]
             el == nodeAt(body, path)
             currentStyle == el.style
         IN  IF \E d \in detached : IsProperPrefix(d, path)
             THEN styleElements(body, elements, i + 1, detached, style, selector)
             ELSE IF el.tag = "img" /\ closestImageGrid(body, path)
             THEN styleElements(body, elements, i + 1, detached, style, selector)
             ELSE IF el.tag = "li"
             THEN LET p == Element("p", "", <<>>, el.kids)
                      li == [el EXCEPT !.kids = <<p>>,
                                       !.style = currentStyle \o <<"; ", styleOf(style, <<"li">>)>>]
                  IN  styleElements(replaceAt(body, path, li), elements, i + 1,
                                    detached \cup {path}, style, selector)
             ELSE LET styled == [el EXCEPT !.style =
                                    currentStyle \o <<"; ", styleOf(style, selector)>>]
                  IN  styleElements(replaceAt(body, path, styled), elements, i + 1,
                                    detached, style, selector)

(* One round of Object.keys(style).forEach (lines 354-390). *)
applySelector(body, style, selector) ==
    IF selector \in SkippedSelectors THEN body
    ELSE styleElements(body, querySelectorAll(body, selector), 1, {}, style, selector)

(* The body after the rounds for the first k keys of the style object. *)
RECURSIVE applySelectors(_, _, _)
applySelectors(body, style, k) ==
    IF k = 0 THEN body
    ELSE applySelector(applySelectors(body, style, k - 1), style, style[k].selector)

(* lines 392-398: the container element. *)
styledContainer(html, style) ==
    LET doc == parseFromString(html)
    IN  Element("div", "", <<styleOf(style, <<"container">>)>>,
                applySelectors(doc.body, style, Len(style)))

(* lines 345-399, for a style key that STYLES has *)
applyInlineStyles(html, style) == outerHTML(styledContainer(html, style))

(* The style object of a key of STYLES: its keys in the order of           *)
(* Object.keys, each with its declaration. The catalog is a table of       *)
(* selectors and declarations that has a container key; applyInlineStyles  *)
(* names the keys li, pre, code, pre code and container.                   *)
MaxKeys == 3

Rule(selector, declaration) == [selector |-> selector, declaration |-> declaration]

ContainerRule == Rule(<<"container">>, "padding:20px")

ElementRules ==
    { Rule(<<"p">>, "font-size:14px"), Rule(<<"li">>, "margin:8px 0"),
      Rule(<<"ul", "li">>, "list-style:disc"), Rule(<<"strong">>, "font-weight:bold"),
      Rule(<<"img">>, "max-width:100%"), Rule(<<"pre">>, "overflow:auto"),
      Rule(<<"pre", "code">>, "font-family:monospace") }

StyleObjects ==
    { <<ContainerRule>> \o s :
        s \in { t \in UNION {[1..n -> ElementRules] : n \in 0..MaxKeys} :
                    \A i, j \in 1..Len(t) : i # j => t[i] # t[j] } }

SomeText == TextNode(<<"t">>)
El(tag, kids) == Element(tag, "", <<>>, kids)

(* The elements that renderDocument returns. *)
Bodies ==
    { El("div", <<>>),
      El("div", <<El("p", <<SomeText>>)>>),
      El("div", <<Element("p", "", <<"color:red">>, <<SomeText, El("strong", <<SomeText>>)>>)>>),
      El("div", <<El("ul", <<El("li", <<SomeText, El("strong", <<SomeText>>)>>)>>)>>),
      El("div", <<El("ul", <<El("li", <<SomeText, El("ul", <<El("li", <<SomeText>>)>>)>>)>>)>>),
      El("div", <<El("ul", <<El("li", <<El("p", <<SomeText>>)>>), El("li", <<SomeText>>)>>)>>),
      El("div", <<El("ol", <<Element("li", "", <<"color:red">>, <<SomeText>>)>>),
                 El("p", <<El("strong", <<SomeText>>)>>)>>),
      El("div", <<Element("div", "image-grid", <<>>, <<El("img", <<>>)>>), El("img", <<>>)>>),
      El("div", <<El("pre", <<El("code", <<SomeText, El("span", <<SomeText>>)>>)>>), El("p", <<SomeText>>)>>),
      El("div", <<El("h1", <<SomeText>>), El("p", <<SomeText, El("img", <<>>)>>)>>) }

Titles == {"note"}

(* The settings that lines 247 to 258 read. *)
PageSettings ==
    { [bareHtmlOnly |-> b, styleSheet |-> "", styleKnown |-> TRUE] : b \in BOOLEAN }

InitPage ==
    /\ NoCopies
    /\ NoEmbed
    /\ NoMime
    /\ NoList
    /\ settings \in PageSettings
    /\ htmlBody \in Bodies
    /\ title \in Titles
    /\ styles \in StyleObjects
    /\ stringified = <<>>
    /\ htmlDocument = <<>>

(* doCopy, lines 247-258 *)
AssembleHtml ==
    /\ htmlDocument = <<>>
    /\ LET html == IF settings.bareHtmlOnly
                   THEN outerHTML(htmlBody)
                   ELSE expandHtmlTemplate(outerHTML(htmlBody), title)
       IN  /\ stringified' = html
           /\ htmlDocument' =
                applyInlineStyles(preprocessMarkdownList(simplifyCodeBlocks(html)), styles)
    /\ UNCHANGED <<copyVars, settings, embedVars, mimeVars, listVars, htmlBody, title, styles>>

NextPage == AssembleHtml

SpecPage == InitPage /\ [][NextPage]_vars

----------------------------------------------------------------------------
(* Properties *)

InFlight == {o \in Ops : pc[o] \in InTry}
Polling == {"render", "sleep"}
Pending == {"reading", "loading"}

(* C1: mutual exclusion of copy operations: at most one doCopy is between  *)
(* setting copyIsRunning and its finally block, whichever entry point the  *)
(* requests come through.                                                  *)
C1_MutualExclusion == Cardinality(InFlight) <= 1

(* C2: guaranteed release of the flag: every step by which a doCopy leaves *)
(* its try block, by the clipboard write succeeding or by an exception,    *)
(* ends it with the success or the failure notice and leaves copyIsRunning *)
(* false.                                                                  *)
C2_FlagReleasedOnExit ==
    [][\A o \in Ops :
        (pc[o] \in InTry /\ pc'[o] \notin InTry)
            => (pc'[o] \in {"done", "failed"} /\ copyIsRunning' = FALSE)]_vars

C2_Witness ==
    /\ \E o \in Ops : pc[o] = "done"
    /\ \E o \in Ops : pc[o] = "failed"
    /\ copyIsRunning = FALSE

(* C3: untilRendered never returns while a block is open: at the step by   *)
(* which it returns, no block has been started and not yet finished.       *)
C3_NoSettleWhileBlockOpen ==
    [][\A o \in Ops :
        (pc[o] \in Polling /\ pc'[o] = "settled") => openBlocks = 0]_vars

(* C4: settling window: when untilRendered returns after some block-end    *)
(* event, at least optionRenderSettlingDelay ms have passed since the last *)
(* block-end event and no block-start event came after it.                 *)
C4_SettlingWindow ==
    [][\A o \in Ops :
        (pc[o] \in Polling /\ pc'[o] = "settled" /\ lastEndAt # -1)
            => (now - lastEndAt >= optionRenderSettlingDelay /\ ~startSinceEnd)]_vars

C4_Witness ==
    \E o \in Ops :
        /\ pc[o] = "settled"
        /\ lastEndAt # -1
        /\ now - lastEndAt >= optionRenderSettlingDelay

(* C5: zero-block documents settle immediately: as long as the renderer    *)
(* has emitted no block event at all, no request waits in untilRendered.   *)
C5_ZeroBlocksSettle == nBlocks = 0 => \A o \in Ops : pc[o] # "sleep"

(* C6: the batch join waits for all resolutions: at the step by which the  *)
(* await of allWithProgress in embedImages or renderSvg completes, no      *)
(* resolution of the batch is still pending.                               *)
C6_JoinWaitsForAll ==
    [][\A o \in Ops :
        (pc[o] \in {"join", "svgJoin"} /\ pc'[o] # pc[o])
            => \A i \in 1..Len(imgs[o]) : imgs[o][i].st \notin Pending]_vars

(* C7: image resolution failures are contained: a copy operation one of    *)
(* whose image resolutions failed does not end in the Failed state.        *)
C7_ImageFailureContained ==
    \A o \in Ops : someRejected(o) => pc[o] # "failed"

(* C8, as claimed: an image whose load failed has its original src after   *)
(* its resolution.                                                         *)
C8_FallbackKeepsOriginal ==
    \A o \in Ops : \A i \in 1..Len(imgs[o]) :
        (imgs[o][i].orig # InlineSvg /\ imgs[o][i].st = "resolved"
            /\ imgs[o][i].how = "fallback")
            => imgs[o][i].src = imgs[o][i].orig

(* C8, amended: a resolution that awaits the load of an image can settle,  *)
(* and an image whose load failed has as src the url imageToDataUri was    *)
(* given: its original src when that is no vault url, and the data URI of  *)
(* the file's content when it is an svg file of the vault.                 *)
C8_FallbackKeepsGivenUrl ==
    \A o \in Ops : \A i \in 1..Len(imgs[o]) :
        /\ imgs[o][i].st = "loading" => ENABLED ImageLoaded(o, i)
        /\ (imgs[o][i].orig # InlineSvg /\ imgs[o][i].st = "resolved"
                /\ imgs[o][i].how = "fallback")
            => /\ imgs[o][i].src = imgs[o][i].url
               /\ imgs[o][i].src =
                    IF imgs[o][i].orig.scheme = "app"
                    THEN DataUri(SvgMime, "file")
                    ELSE imgs[o][i].orig

C8_Witness ==
    \E o \in Ops : \E i, j \in 1..Len(imgs[o]) :
        /\ imgs[o][i].st = "resolved" /\ imgs[o][i].how = "fallback"
        /\ imgs[o][i].orig = ExternalUrl
        /\ imgs[o][j].st = "resolved" /\ imgs[o][j].how = "fallback"
        /\ imgs[o][j].orig = VaultUrl("svg")

(* C9: an unknown style name degrades gracefully: the step in which        *)
(* applyInlineStyles is called with a style name that is no key of STYLES  *)
(* does not end the copy operation in failure.                             *)
C9_UnknownStyleCompletes ==
    [][\A o \in Ops :
        (pc[o] = "assemble" /\ ~settings.styleKnown) => pc'[o] # "failed"]_vars

C11_AbortHasNoEffect ==
    [][\A o \in Ops :
        /\ (pc[o] # "aborted" /\ pc'[o] = "aborted")
            => /\ pc[o] = "idle"
               /\ UNCHANGED <<copyIsRunning, ppIsProcessing, ppLastBlockDate,
                              modalOpen, clip, notices, wrappers>>
        /\ pc[o] = "aborted"
            => (pc'[o] = "aborted" /\ modalOpen'[o] = FALSE /\ clip'[o] = 0)]_vars

C11_Witness ==
    \E o, p \in Ops :
        /\ pc[o] = "aborted" /\ ~modalOpen[o] /\ clip[o] = 0
        /\ pc[p] \in InTry /\ copyIsRunning

(* C19: the flag reflects in-flight work: copyIsRunning is true whenever   *)
(* some doCopy is between setting the flag and its finally block.          *)
C19_FlagReflectsInFlight == InFlight # {} => copyIsRunning

(* C20: no work outlives the operation: once a doCopy has ended, with the  *)
(* success or the failure notice, none of the image resolutions it started *)
(* is still pending.                                                       *)
C20_NoWorkOutlivesOperation ==
    \A o \in Ops :
        pc[o] \in {"done", "failed"}
            => \A i \in 1..Len(imgs[o]) : imgs[o][i].st \notin Pending

(* C12, as claimed: a second pass of embedImages changes nothing, and an   *)
(* img whose src is a data URI when a pass starts has the same src after   *)
(* the pass.                                                               *)
C12_DataUrisUntouched ==
    /\ Len(passStarts) = MaxPasses => node = passStarts[MaxPasses]
    /\ Len(passStarts) >= 1 =>
        \A i \in 1..Len(node) :
            passStarts[1][i].scheme = "data" => node[i] = passStarts[1][i]

(* C12, amended: a second pass of embedImages changes nothing, and an img  *)
(* whose src is a data URI when a pass starts has the same src after the   *)
(* pass, unless it is an svg data URI and svgs are converted to bitmaps:   *)
(* then its src is the png data URI of the canvas when the svg loads, and  *)
(* the same src when it does not.                                          *)
C12_IdempotentPass ==
    /\ Len(passStarts) = MaxPasses => node = passStarts[MaxPasses]
    /\ Len(passStarts) >= 1 =>
        \A i \in 1..Len(node) :
            LET before == passStarts[1][i]
            IN  before.scheme = "data" =>
                    IF before.type = SvgMime /\ settings.convertSvgToBitmap
                        /\ loads.outcome[before] = "ok"
                    THEN node[i] = DataUri(PngMime, "pixels")
                    ELSE node[i] = before

C12_Witness ==
    /\ Len(passStarts) = MaxPasses
    /\ \E i, j \in 1..Len(node) :
        /\ passStarts[1][i] = DataUri(SvgMime, "inline")
        /\ node[i] = DataUri(PngMime, "pixels")
        /\ passStarts[1][j] = VaultUrl("svg")
        /\ node[j] = DataUri(SvgMime, "file")
        /\ settings.convertSvgToBitmap

(* C18: mime-type inference.  The extension is the lower-cased text after  *)
(* the last "." of the last "/"-delimited segment of the path; the result  *)
(* is image/svg+xml for svg, image/jpeg for jpg, image/<extension> for any *)
(* other extension, and image/png when the last segment has no "." or ends *)
(* with ".", whatever the earlier segments contain.                        *)
C18_LastSegment ==
    LET n == Len(mimePath)
        first == CHOOSE i \in 1..(n + 1) :
                    /\ \A k \in i..n : mimePath[k] # "/"
                    /\ i = 1 \/ mimePath[i - 1] = "/"
    IN  [k \in 1..(n + 1 - first) |-> mimePath[first + k - 1]]

C18_MimeTypeOfPath ==
    mimeGuess # <<>> =>
        LET seg == C18_LastSegment
            m == Len(seg)
        IN  IF (\A k \in 1..m : seg[k] # ".") \/ seg[m] = "."
            THEN mimeGuess = <<"image", <<"png">>>>
            ELSE CASE seg[m] \in {"svg", "SVG"} -> mimeGuess = <<"image", <<"svg+xml">>>>
                   [] seg[m] = "Jpg" -> mimeGuess = <<"image", <<"jpeg">>>>
                   [] OTHER -> mimeGuess = <<"image", <<seg[m]>>>>

C18_Witness ==
    /\ mimePath = <<"a", ".", "svg", "/", "a">>
    /\ mimeGuess = <<"image", <<"png">>>>

(* C17: settle liveness: when the renderer has emitted at least one block  *)
(* event during the first request's rendering and from some point on emits *)
(* no event, every started block being finished, then from some point on   *)
(* the first request does not wait in untilRendered.                       *)
C17_SettleLiveness ==
    <>[](nBlocks > 0 /\ openBlocks = 0) => <>[](pc[1] # "sleep")

(* The lines of a text, and the shapes the claim C16 names: a list-marker  *)
(* line (optional indentation, a marker "-", "*" or digits and ".",        *)
(* whitespace, text without a colon) and a continuation line (optional     *)
(* whitespace, a colon, optional whitespace, the continuation text).       *)
RECURSIVE C16_Lines(_)
C16_Lines(text) ==
    IF \E i \in 1..Len(text) : text[i] = "\n"
    THEN LET i == CHOOSE i \in 1..Len(text) :
                    text[i] = "\n" /\ \A k \in 1..(i - 1) : text[k] # "\n"
         IN  <<SubSeq(text, 1, i - 1)>> \o C16_Lines(SubSeq(text, i + 1, Len(text)))
    ELSE <<text>>

C16_Blank == Whitespace \ {"\n"}

C16_IsMarkerLine(l) ==
    \E i \in 0..Len(l) : \E j \in (i + 1)..(Len(l) - 2) :
        /\ \A k \in 1..i : l[k] \in C16_Blank
        /\ \/ j = i + 1 /\ l[j] \in {"-", "*"}
           \/ j > i + 1 /\ l[j] = "." /\ \A k \in (i + 1)..(j - 1) : l[k] \in Digits
        /\ l[j + 1] \in C16_Blank
        /\ \A k \in (j + 1)..Len(l) : l[k] # ":"

C16_IsContinuationLine(l) ==
    \E p \in 1..Len(l) : \E q \in (p + 1)..Len(l) :
        /\ \A k \in 1..(p - 1) : l[k] \in C16_Blank
        /\ l[p] = ":"
        /\ \A k \in (p + 1)..(q - 1) : l[k] \in C16_Blank
        /\ l[q] \notin C16_Blank

C16_ContinuationText(l) ==
    LET p == CHOOSE p \in 1..Len(l) : l[p] = ":" /\ \A k \in 1..(p - 1) : l[k] # ":"
        q == CHOOSE q \in (p + 1)..Len(l) :
                l[q] \notin C16_Blank /\ \A k \in (p + 1)..(q - 1) : l[k] \in C16_Blank
    IN  SubSeq(l, q, Len(l))

C16_Example ==
    <<"-", " ", "i", "t", "e", "m", " ", "o", "n", "e", "\n", " ", " ", ":", " ",
      "c", "o", "n", "t", "i", "n", "u", "a", "t", "i", "o", "n", " ",
      "t", "e", "x", "t">>

C16_ExampleMerged ==
    <<"-", " ", "i", "t", "e", "m", " ", "o", "n", "e", ":", " ",
      "c", "o", "n", "t", "i", "n", "u", "a", "t", "i", "o", "n", " ",
      "t", "e", "x", "t">>

(* The merge of a colon continuation: a text of two lines, a list-marker   *)
(* line and a continuation line, becomes the one line                      *)
(* '<item>: <continuation>', as in the example of the claim.               *)
C16_MergesColonContinuation ==
    LET lines == C16_Lines(content)
    IN  /\ (Len(lines) = 2 /\ C16_IsMarkerLine(lines[1])
                /\ C16_IsContinuationLine(lines[2]))
            => normalized = lines[1] \o <<":", " ">> \o C16_ContinuationText(lines[2])
        /\ content = C16_Example => normalized = C16_ExampleMerged

(* C16, as claimed: the colon continuation is merged, and a text in which  *)
(* no list-marker line is followed by a continuation line is returned      *)
(* unchanged.                                                              *)
C16_OnlyColonContinuation ==
    normalized # <<"?">> =>
        /\ C16_MergesColonContinuation
        /\ LET lines == C16_Lines(content)
           IN  (~ \E k \in 1..(Len(lines) - 1) :
                    C16_IsMarkerLine(lines[k]) /\ C16_IsContinuationLine(lines[k + 1]))
                => normalized = content

C16_StartsWithMarker(l) ==
    \E i \in 0..Len(l) : \E j \in (i + 1)..Len(l) :
        /\ \A k \in 1..i : l[k] \in C16_Blank
        /\ \/ j = i + 1 /\ l[j] \in {"-", "*"}
           \/ j > i + 1 /\ l[j] = "." /\ \A k \in (i + 1)..(j - 1) : l[k] \in Digits

(* C16, amended: the colon continuation is merged; a list-marker line that *)
(* ends with a colon and is followed by an indented line, and a            *)
(* list-marker line followed by an empty line and an indented line, are    *)
(* merged with that line too; a text none of whose lines starts with a     *)
(* list marker is returned unchanged.                                      *)
C16_MergesContinuations ==
    normalized # <<"?">> =>
        /\ C16_MergesColonContinuation
        /\ content = <<"-", " ", "a", ":", "\n", " ", "a">>
            => normalized = <<"-", " ", "a", ":", " ", "a">>
        /\ content = <<"-", " ", "a", "\n", "\n", " ", "a">>
            => normalized = <<"-", " ", "a", " ", "a">>
        /\ LET lines == C16_Lines(content)
           IN  (~ \E k \in 1..Len(lines) : C16_StartsWithMarker(lines[k]))
                => normalized = content

C16_Witness ==
    /\ content = C16_Example
    /\ normalized = C16_ExampleMerged

(* The html that applyInlineStyles is given at line 258, and its body. *)
C13_Html == preprocessMarkdownList(simplifyCodeBlocks(stringified))
C13_Body == parseFromString(C13_Html).body

(* Where the element at the path is after the round of the selector: under *)
(* the p that a matched li above it was given.                             *)
C13_PathAfter(body, path, selector) ==
    LET above == {n \in 1..(Len(path) - 1) :
                    /\ nodeAt(body, SubSeq(path, 1, n)).tag = "li"
                    /\ matches(body, SubSeq(path, 1, n), selector)}
    IN  IF above = {} THEN path
        ELSE LET n == CHOOSE n \in above : \A m \in above : n <= m
             IN  SubSeq(path, 1, n) \o <<1>> \o SubSeq(path, n + 1, Len(path))

(* C13: non-destructive, ordered style append: for every key of the style  *)
(* object other than pre, code and pre code, and every element that its    *)
(* selector matches (other than an img inside an image-grid), the round of *)
(* that key leaves the element's style attribute equal to its previous     *)
(* value followed by the declaration of that key.                          *)
C13_StyleAppended ==
    htmlDocument # <<>> =>
        /\ htmlDocument = applyInlineStyles(C13_Html, styles)
        /\ \A k \in 1..Len(styles) :
            LET selector == styles[k].selector
                before == applySelectors(C13_Body, styles, k - 1)
                after == applySelectors(C13_Body, styles, k)
                elements == elementPaths(before, <<>>, 1)
            IN  selector \notin SkippedSelectors =>
                    \A i \in 1..Len(elements) :
                        LET path == elements[i]
                            el == nodeAt(before, path)
                        IN  (/\ matches(before, path, selector)
                             /\ ~(el.tag = "img" /\ closestImageGrid(before, path)))
                            => nodeAt(after, C13_PathAfter(before, path, selector)).style
                                = el.style \o <<"; ", styles[k].declaration>>

(* The tags of the nodes, with the only child of an li, when it is a p,    *)
(* replaced by its children.                                               *)
RECURSIVE C14_Unwrapped(_, _)
C14_Unwrapped(kids, i) ==
    IF i > Len(kids) THEN <<>>
    ELSE LET n == kids[i]
             own == IF n.tag = "li" /\ Len(n.kids) = 1 /\ n.kids[1].tag = "p"
                    THEN n.kids[1].kids
                    ELSE n.kids
         IN  <<[tag |-> n.tag, kids |-> C14_Unwrapped(own, 1)]>>
             \o C14_Unwrapped(kids, i + 1)

RECURSIVE C14_Tags(_, _)
C14_Tags(kids, i) ==
    IF i > Len(kids) THEN <<>>
    ELSE <<[tag |-> kids[i].tag, kids |-> C14_Tags(kids[i].kids, 1)]>>
         \o C14_Tags(kids, i + 1)

(* C14: list-item wrapping: with a style object that has the key li, every *)
(* li element of the output of applyInlineStyles, nested or not, matched   *)
(* by one selector or by several, has exactly one child, a p, that holds   *)
(* the li's original children (wrapped once), and the style attribute of   *)
(* the li ends with the declaration of the key li.                         *)
C14_ListItemsWrapped ==
    (/\ htmlDocument # <<>>
     /\ \E k \in 1..Len(styles) : styles[k].selector = <<"li">>) =>
        LET out == styledContainer(C13_Html, styles)
            elements == elementPaths(out.kids, <<>>, 1)
        IN  /\ htmlDocument = outerHTML(out)
            /\ \A i \in 1..Len(elements) :
                LET li == nodeAt(out.kids, elements[i])
                IN  li.tag = "li" =>
                        /\ Len(li.kids) = 1
                        /\ li.kids[1].tag = "p"
                        /\ Len(li.style) >= 2
                        /\ SubSeq(li.style, Len(li.style) - 1, Len(li.style))
                            = <<"; ", styleOf(styles, <<"li">>)>>
            /\ C14_Unwrapped(out.kids, 1) = C14_Tags(C13_Body, 1)

(* Whether the html is a whole document: the doctype, and an html element  *)
(* whose head has the title.                                               *)
C15_IsFullDocument(html) ==
    /\ html # <<>>
    /\ html[1] = Doctype
    /\ \E i \in 1..(Len(html) - 3) :
        SubSeq(html, i, i + 3) = <<"<", "title", ">", title>>

(* Whether the html is a fragment: the container element and nothing else. *)
C15_IsFragment(html) ==
    /\ Len(html) >= 9
    /\ SubSeq(html, 1, 6)
        = <<"<", "div", StyleAttr, styleOf(styles, <<"container">>), Quote, ">">>
    /\ parseNodes(html, 1).nodes = <<styledContainer(C13_Html, styles)>>

(* C15: shape of the produced artifact: the html that doCopy hands to the  *)
(* clipboard is a bare fragment (the styled container around the body)     *)
(* when settings.bareHtmlOnly is set, and a whole document (html, head     *)
(* with the title, body) when it is not; the steps after line 249 keep the *)
(* wrapper chosen there.                                                   *)
C15_ArtifactShape ==
    htmlDocument # <<>> =>
        /\ settings.bareHtmlOnly => C15_IsFragment(htmlDocument)
        /\ ~settings.bareHtmlOnly => C15_IsFullDocument(htmlDocument)
        /\ C15_IsFullDocument(stringified) <=> C15_IsFullDocument(htmlDocument)

(* C21: render scratch cleanup: every hidden wrapper that renderMarkdown   *)
(* attached to document.body is removed by the time its copy operation     *)
(* ends, whether it ends with a clipboard write or with a failure, so no   *)
(* more wrappers are attached than operations are in flight, and none once *)
(* every operation has ended.                                              *)
C21_WrapperRemoved == wrappers <= Cardinality(InFlight)

====
